---- MODULE Spec2Model ----
(***************************************************************************)
(* A model of showmehow's entry point and practice session engine          *)
(* (src/showmehow/showmehow.py, main and class PracticeTaskStateMachine)   *)
(* together with the two services it talks to, and of the reload-monitored *)
(* session that src/showmehow/remindmehow.py starts.                       *)
(*                                                                         *)
(* Strings are sequences of characters, so that strip(), startswith() and  *)
(* re.split() are computed and not assumed.                                *)
(***************************************************************************)
EXTENDS Integers, Sequences, FiniteSets, TLC

(* ------------------------------------------------------------------ *)
(* Bounds of the model                                                 *)
(* ------------------------------------------------------------------ *)

\* Submissions the user may make in one run.
MaxRounds == 2

(* ------------------------------------------------------------------ *)
(* Strings                                                             *)
(* ------------------------------------------------------------------ *)

sShowmehow == <<"s", "h", "o", "w", "m", "e", "h", "o", "w">>

sQuit == <<"q", "u", "i", "t">>

sExit == <<"e", "x", "i", "t">>

sCd == <<"c", "d">>

sLs == <<"l", "s">>

sSp == <<" ">>

\* A carriage return, blank for strip() and \s.
sCr == <<"\r">>

\* A no-break space, blank for strip() and \s.
sNbsp == <<"U+00A0">>

\* Python's None where a lesson name is expected: a value no string equals.
None == <<"<None>">>

\* Python's None where a task name is expected.
NoneTask == "<None>"

\* The value of _state while no engine is constructed: the attribute is set
\* by _initialize, which __init__ calls.
Unset == "<unset>"

\* Python's truth value of a lesson name: None and '' are false.
Truthy(x) == x # None /\ x # <<>>

\* The characters str.strip() and the regular expression \s take as blank:
\* the 29 characters for which str.isspace() holds.  A character that has no
\* escape in a TLA+ string is written by its code point.
Whitespace ==
    { "\t", "\n", "U+000B", "\f", "\r", "U+001C", "U+001D", "U+001E", "U+001F",
      " ", "U+0085", "U+00A0", "U+1680", "U+2000", "U+2001", "U+2002",
      "U+2003", "U+2004", "U+2005", "U+2006", "U+2007", "U+2008", "U+2009",
      "U+200A", "U+2028", "U+2029", "U+202F", "U+205F", "U+3000" }

\* str.strip(): drop the leading blanks
RECURSIVE LStrip(_)
LStrip(s) ==
    IF s # <<>> /\ Head(s) \in Whitespace THEN LStrip(Tail(s)) ELSE s

\* str.strip(): drop the trailing blanks
RECURSIVE RStrip(_)
RStrip(s) ==
    IF s # <<>> /\ s[Len(s)] \in Whitespace
    THEN RStrip(SubSeq(s, 1, Len(s) - 1))
    ELSE s

Strip(s) == RStrip(LStrip(s))

StartsWith(s, p) == Len(s) >= Len(p) /\ SubSeq(s, 1, Len(p)) = p

\* Index of the first blank of s, 0 when s has none.
FirstBlank(s) ==
    IF \E i \in 1..Len(s) : s[i] \in Whitespace
    THEN CHOOSE i \in 1..Len(s) :
             /\ s[i] \in Whitespace
             /\ \A j \in 1..(i - 1) : s[j] \notin Whitespace
    ELSE 0

\* re.split(r"\s+", s, maxsplit=1): one piece when s has no blank, otherwise
\* what precedes the first run of blanks and everything that follows it.
ReSplitOnce(s) ==
    LET i == FirstBlank(s)
    IN  IF i = 0 THEN <<s>>
        ELSE <<SubSeq(s, 1, i - 1), LStrip(SubSeq(s, i, Len(s)))>>

\* handle_user_input_text: the converter for text input.  "rejected" stands
\* for its None.
handle_user_input_text(text) ==
    LET converted == Strip(text)
    IN  IF Len(converted) # 0
        THEN [accepted |-> TRUE, value |-> converted]
        ELSE [accepted |-> FALSE, value |-> None]

(* ------------------------------------------------------------------ *)
(* Lesson content (lessons.json as the engine reads it)                *)
(* ------------------------------------------------------------------ *)

Ev(v) == [type |-> "event", value |-> v]

\* The input descriptor of a task: its modality and, for a choice, the keys
\* offered.
In(t) == [type |-> t, settings |-> <<>>]

Choice(keys) == [type |-> "choice", settings |-> keys]

Lessons ==
    << [name |-> sShowmehow, entry |-> "s1",
        practice |->
          [s1 |-> [task |-> "d_s1", input |-> In("text"),
                   effects |->
                     [success |-> [reply |-> "r_ok", completes_lesson |-> TRUE,
                                   move_to |-> "s1"],
                      fail |-> [reply |-> "r_no"]]]]],
       [name |-> sCd, entry |-> "c1",
        practice |->
          [c1 |-> [task |-> "d_c1", input |-> In("text"),
                   effects |->
                     [success |-> [reply |-> "r_ok", move_to |-> "c2",
                                   side_effects |-> <<Ev("e1")>>],
                      fail |-> [reply |-> "r_no"]]],
           c2 |-> [task |-> "d_c2", input |-> In("external_events"),
                   effects |->
                     [success |-> [reply |-> "r_ok", completes_lesson |-> TRUE,
                                   side_effects |-> <<Ev("e1"), Ev("e2")>>],
                      fail |-> [reply |-> "r_no", move_to |-> "c2",
                                side_effects |-> <<Ev("e2")>>]]]]],
       [name |-> sLs, entry |-> "l1",
        practice |->
          [l1 |-> [task |-> "d_l1", input |-> Choice(<< <<"k", "1">>, <<"k", "2">> >>),
                   effects |->
                     [success |-> [reply |-> "r_ok", completes_lesson |-> TRUE,
                                   move_to |-> "l2"],
                      fail |-> [reply |-> "r_no", move_to |-> "l2",
                                completes_lesson |-> FALSE]]],
           l2 |-> [task |-> "d_l2", input |-> In("console"),
                   effects |->
                     [success |-> [reply |-> "r_ok", move_to |-> "l1"],
                      fail |-> [reply |-> "r_no", side_effects |-> <<>>]]]]] >>

LessonNames == {Lessons[i].name : i \in 1..Len(Lessons)}

\* The lessons for which the service hands out a session; for the others
\* open_session answers -1.
SessionLessons == {sShowmehow, sCd}

\* dict.get(key, default)
Get(d, key, default) == IF key \in DOMAIN d THEN d[key] ELSE default

\* _INPUT_STATE_TRANSITIONS: the state to wait in for an input modality, a
\* defaultdict that answers "waiting" for every key but external_events.
INPUT_STATE_TRANSITIONS(type) ==
    IF type = "external_events" THEN "waiting_lesson_events" ELSE "waiting"

\* find_task_json: ok is FALSE where the Python raises IndexError (no such
\* lesson) or KeyError (no such task).
find_task_json(json_file, lesson, task) ==
    LET found == {i \in 1..Len(json_file) : json_file[i].name = lesson}
    IN  IF found = {} THEN [ok |-> FALSE]
        ELSE LET l == json_file[CHOOSE i \in found : \A j \in found : i <= j]
             IN  IF task \in DOMAIN l.practice
                 THEN [ok |-> TRUE, val |-> l.practice[task]]
                 ELSE [ok |-> FALSE]

(* ------------------------------------------------------------------ *)
(* Response rendering                                                  *)
(* ------------------------------------------------------------------ *)

\* The keys of _RESPONSE_ACTIONS.
ResponseTypes == {"raw", "scrolled", "scroll_wait", "wrapped"}

\* A wait time that is decreased without a floor.
WaitTextFunctorNoFloor(w) == w - 1

\* WaitTextFunctor.__call__: the wait time after one more call.
WaitTextFunctor(w) == IF w - 1 > 1 THEN w - 1 ELSE 1

\* show_response on each response in turn, from wait time w: ok is FALSE where
\* show_response raises RuntimeError, and out holds what was shown before.
RECURSIVE ShowResponses(_, _)
ShowResponses(responses, w) ==
    IF responses = <<>> THEN [ok |-> TRUE, out |-> <<>>, wait |-> w]
    ELSE LET r == Head(responses)
         IN  IF r \notin ResponseTypes
             THEN [ok |-> FALSE, out |-> <<>>, wait |-> w]
             ELSE LET w1 == IF r = "scroll_wait" THEN WaitTextFunctor(w) ELSE w
                      rest == ShowResponses(Tail(responses), w1)
                  IN  [ok |-> rest.ok,
                       out |-> <<(<<"response", r>>)>> \o rest.out,
                       wait |-> rest.wait]

(* ------------------------------------------------------------------ *)
(* Side effects                                                        *)
(* ------------------------------------------------------------------ *)

\* What call_external_event_sync may do: return, fail with the error that
\* matches ("coding-game-service", 2), or fail with any other GLib.Error.
Outcomes == {"ok", "not_interested", "other_error"}

\* _run_event_side_effect: TRUE when it returns normally, FALSE when an
\* exception leaves it.  The except clause catches every GLib.Error; its
\* body passes on a match and has no other branch.
RunEventSideEffect(outcome) ==
    IF outcome = "ok" THEN TRUE
    ELSE IF outcome = "not_interested" THEN TRUE
    ELSE TRUE

\* dispatch_side_effect: the lookup in _SIDE_EFFECT_DISPATCH raises KeyError
\* for a type other than "event".
dispatch_side_effect(effect, outcome) ==
    IF effect.type = "event" THEN RunEventSideEffect(outcome) ELSE FALSE

\* The loop over side_effects: outcomes[i] is what the secondary service does
\* with the i-th call.  out holds the calls made; ok is FALSE when one raised.
RECURSIVE DispatchAll(_, _)
DispatchAll(effects, outcomes) ==
    IF effects = <<>> THEN [ok |-> TRUE, out |-> <<>>]
    ELSE LET e == Head(effects)
             o == Head(outcomes)
             called == IF e.type = "event"
                       THEN <<(<<"side_effect", e.value, o>>)>>
                       ELSE <<>>
         IN  IF dispatch_side_effect(e, o)
             THEN LET rest == DispatchAll(Tail(effects), Tail(outcomes))
                  IN  [ok |-> rest.ok, out |-> called \o rest.out]
             ELSE [ok |-> FALSE, out |-> called]

(* ------------------------------------------------------------------ *)
(* State                                                               *)
(* ------------------------------------------------------------------ *)

VARIABLES
    state,        \* PracticeTaskStateMachine._state
    lesson,       \* PracticeTaskStateMachine._lesson
    task,         \* PracticeTaskStateMachine._task
    session,      \* PracticeTaskStateMachine._session
    wait_time,    \* WaitTextFunctor._wait_time of _RESPONSE_ACTIONS["scroll_wait"]
    pc,           \* where the process is: see Positions
    unwinds,      \* whether an exception leaving a main-loop callback unwinds main
    unlocked,     \* the 'unlocked-lessons' setting
    svcOpen,      \* the sessions open at the primary service
    closeCalls,   \* the handles close_session was called with, in order
    nextHandle,   \* the next session handle the service hands out
    lastSent,     \* the last attempt_lesson call made
    nSent,        \* how many attempt_lesson calls were made
    reply,        \* the answer to the attempt in flight
    lcPending,    \* a lessons-changed signal emitted and not yet dispatched
    descShown,    \* how many task descriptions were shown
    inputsRead,   \* how many times display_input() was called
    trace,        \* what the running (or last) handler did, in order
    printed,      \* the messages of quit, handle_lessons_changed and SystemExit
    nCompleted,   \* how many synthetic lesson-completed events were dispatched
    nApplied,     \* how many grading results the completion callback received
    lastInput,    \* what display_input() returned last
    lcRound,      \* the attempt in flight when lessons-changed was emitted, or 0
    abortedFrom,  \* where the process was when handle_lessons_changed ran
    lessonEvents, \* the task the service's lesson-events notification named
    \* remindmehow: the reload monitor and the session practice_task runs
    r_mon,        \* the monitor: "new", "started" or "stopped"
    r_flag,       \* the monitor's flag, what Reloaded() returns
    r_state,      \* the engine state of practice_task, "OFF" before it runs
    r_lesson,     \* the lesson practised
    r_task,       \* the task pointer
    r_pending,    \* the converted input awaiting the checkpoint
    r_inflight,   \* a submission was sent and its result has not arrived
    r_result,     \* the grading result being applied
    r_accepted,   \* how many inputs were converted and accepted
    r_sent,       \* the submissions sent to the service, in order
    r_msg,        \* the reason printed on abort
    r_fetches     \* how many task descriptions were fetched

vars ==
    <<state, lesson, task, session, wait_time, pc, unwinds, unlocked, svcOpen,
      closeCalls, nextHandle, lastSent, nSent, reply, lcPending,
      descShown, inputsRead, trace, printed, nCompleted, nApplied, lastInput,
      lcRound, abortedFrom, lessonEvents, r_mon, r_flag, r_state, r_lesson, r_task,
      r_pending, r_inflight, r_result, r_accepted, r_sent, r_msg, r_fetches>>

\* The variables of showmehow's engine and of what surrounds it.
evars ==
    <<state, lesson, task, session, wait_time, pc, unwinds, unlocked, svcOpen,
      closeCalls, nextHandle, lastSent, nSent, reply, lcPending,
      descShown, inputsRead, trace, printed, nCompleted, nApplied, lastInput,
      lcRound, abortedFrom, lessonEvents>>

\* The variables of remindmehow's session.
rvars ==
    <<r_mon, r_flag, r_state, r_lesson, r_task, r_pending, r_inflight,
      r_result, r_accepted, r_sent, r_msg, r_fetches>>

\* main:           main() entered, nothing done yet.
\* returned:       main returned without constructing an engine.
\* constructed:    __init__ has run.
\* start:          in the main loop, _show_next_task scheduled by idle_add.
\* input:          blocked in display_input().
\* inflight:       in the main loop, an attempt_lesson call outstanding.
\* hung:           in the main loop with nothing scheduled.
\* quit_requested: in the main loop after _loop.quit(): run() returns once
\*                 the sources already ready in this iteration are dispatched.
\* done:           run() returned, the with block left, main returned.
\* exited:         the process ended on SystemExit.
\* crashed:        the process ended on another exception.
Positions ==
    {"main", "returned", "constructed", "start", "input", "inflight", "hung",
     "quit_requested", "done", "exited", "crashed"}

\* SignalsDispatchedAt with display_input() dispatching signals as well.
SignalsDispatchedAnywhere(p) ==
    p \in {"start", "input", "inflight", "hung", "quit_requested"}

\* Signals and callbacks are dispatched by the main loop: not while the
\* process is blocked in display_input(), which blocks the event loop, nor
\* before start() or after the process ended.  After _loop.quit() the loop
\* still dispatches what was ready in the same iteration.
SignalsDispatchedAt(p) == p \in {"start", "inflight", "hung", "quit_requested"}

InMainLoop == SignalsDispatchedAt(pc)

Terminated == pc \in {"returned", "done", "exited", "crashed"}

NoReply == [kind |-> "none"]

NoSent == [session |-> -1, lesson |-> None, task |-> NoneTask, input |-> None]

\* No lesson-events notification was emitted.
NoNotification == <<>>

(* ------------------------------------------------------------------ *)
(* The primary service and the settings, as the engine sees them       *)
(* ------------------------------------------------------------------ *)

\* What open_session may do for a lesson the service does not know.
OpenOutcomes == {"raise", "handle", "none"}

\* call_open_session_sync(lesson): a fresh handle nh for a lesson that needs a
\* session, -1 for one that needs none.
open_session(l, nh, oo) ==
    IF l \in LessonNames
    THEN [ok |-> TRUE, handle |-> IF l \in SessionLessons THEN nh ELSE -1]
    ELSE IF oo = "raise" THEN [ok |-> FALSE, handle |-> -1]
    ELSE [ok |-> TRUE, handle |-> IF oo = "handle" THEN nh ELSE -1]

\* What call_close_session_sync returns, which __exit__ stores in _session.
CloseReturn == 0

\* get_unlocked_tasks: the comprehension's condition names
\* task_name_desc_pairs, which is not defined, so the first unlocked lesson
\* raises NameError (ok is FALSE); with none unlocked the list is empty.
get_unlocked_tasks(lessons, setting) ==
    IF setting = <<>> THEN [ok |-> TRUE, val |-> <<>>] ELSE [ok |-> FALSE]

\* find_task_or_report_error: (task, entry) of the first unlocked task named
\* requested_task.  When there is none it prints a message, which depends on
\* what was asked for and on whether anything is unlocked, calls
\* show_tasks(unlocked_tasks) (out) and returns (None, None).
find_task_or_report_error(unlocked_tasks, requested_task) ==
    LET hits == SelectSeq(unlocked_tasks, LAMBDA t : t[1] = requested_task)
    IN  IF hits # <<>>
        THEN [task |-> hits[1][1], entry |-> hits[1][3], message |-> "",
              out |-> <<>>]
        ELSE [task |-> None, entry |-> NoneTask,
              message |-> IF Truthy(requested_task)
                          THEN "I don't know how to do task"
                          ELSE IF Len(unlocked_tasks) = 0
                          THEN "I can't show you anything right now, sorry."
                          ELSE "Hey, how are you?",
              out |-> << <<"tasks">> >>]

(* ------------------------------------------------------------------ *)
(* How a handler ends                                                  *)
(* ------------------------------------------------------------------ *)

\* __exit__: close the session held, if one is.
Exit(se, open, calls) ==
    IF se # -1
    THEN [session |-> CloseReturn, open |-> open \ {se},
          calls |-> Append(calls, se)]
    ELSE [session |-> se, open |-> open, calls |-> calls]

\* Where the process is after a handler ended in `kind`, holding session se:
\*   input       it blocks in display_input();
\*   inflight    it returned to the main loop with an attempt outstanding;
\*   returned    it returned to the main loop with nothing scheduled;
\*   loop_quit   it called _loop.quit() and returned to the main loop, which
\*               has not returned yet: the session is still held;
\*   system_exit sys.exit or SystemExit inside a main-loop callback;
\*   exception   any other exception inside a main-loop callback.
\* The last two unwind through main's with block only if the runtime lets an
\* exception leave the callback (unw); otherwise SystemExit ends the process
\* where it is and any other exception is reported and the loop goes on.
Finish(kind, se, open, calls, unw) ==
    LET stay == [session |-> se, open |-> open, calls |-> calls]
        left == Exit(se, open, calls)
    IN  CASE kind = "input" -> [pc |-> "input"] @@ stay
          [] kind = "inflight" -> [pc |-> "inflight"] @@ stay
          [] kind = "returned" -> [pc |-> "hung"] @@ stay
          [] kind = "loop_quit" -> [pc |-> "quit_requested"] @@ stay
          [] kind = "system_exit" ->
                [pc |-> "exited"] @@ (IF unw THEN left ELSE stay)
          [] OTHER ->
                IF unw THEN [pc |-> "crashed"] @@ left
                ELSE [pc |-> "hung"] @@ stay

(* ------------------------------------------------------------------ *)
(* The handlers, as functions of what they read                        *)
(* ------------------------------------------------------------------ *)

\* What a handler's record holds when its assert statement failed.
AssertionError == <<"AssertionError">>

\* handle_task_description_fetched, entered in state st: AssertionError
\* unless st is "fetching"; otherwise the description is shown, the state
\* becomes "waiting" and display_input() is called.
handle_task_description_fetched(st, ta) ==
    IF st # "fetching"
    THEN [state |-> st, end |-> "exception", out |-> <<AssertionError>>,
          shown |-> 0, read |-> 0]
    ELSE [state |-> "waiting", end |-> "input",
          out |-> << <<"description", ta>>, <<"prompt">> >>, shown |-> 1,
          read |-> 1]

\* _show_next_task: find_task_json, then handle_task_description_fetched.
show_next_task(st, le, ta) ==
    IF find_task_json(Lessons, le, ta).ok
    THEN handle_task_description_fetched(st, ta)
    ELSE [state |-> st, end |-> "exception", out |-> <<>>, shown |-> 0,
          read |-> 0]

\* initialize that opens the new session without closing the one held.
initialize_keep_open(le, ta, last, nh, oo) ==
    LET base == [state |-> "fetching", lesson |-> le, task |-> ta,
                 session |-> -1, closed |-> <<>>, opened |-> -1,
                 end |-> "returned", out |-> <<>>, shown |-> 0, read |-> 0]
    IN  IF last = -1 THEN base
        ELSE LET o == open_session(le, nh, oo)
             IN  IF ~o.ok THEN [base EXCEPT !.end = "exception"]
                 ELSE LET n == show_next_task("fetching", le, ta)
                      IN  [base EXCEPT !.session = o.handle,
                                       !.opened = o.handle,
                                       !.state = n.state,
                                       !.end = n.end,
                                       !.out = n.out,
                                       !.shown = n.shown,
                                       !.read = n.read]

\* _initialize(le, ta) called with _session = last, the service's next handle
\* being nh: the fields it leaves, the handles it closed and opened, and how
\* it ends ("returned" when it shows no task).
initialize(le, ta, last, nh, oo) ==
    LET base == [state |-> "fetching", lesson |-> le, task |-> ta,
                 session |-> -1, closed |-> <<>>, opened |-> -1,
                 end |-> "returned", out |-> <<>>, shown |-> 0, read |-> 0]
    IN  IF last = -1 THEN base
        ELSE LET o == open_session(le, nh, oo)
                 closedOne == [base EXCEPT !.closed = <<last>>]
             IN  IF ~o.ok THEN [closedOne EXCEPT !.end = "exception"]
                 ELSE LET n == show_next_task("fetching", le, ta)
                      IN  [closedOne EXCEPT !.session = o.handle,
                                            !.opened = o.handle,
                                            !.state = n.state,
                                            !.end = n.end,
                                            !.out = n.out,
                                            !.shown = n.shown,
                                            !.read = n.read]

\* quit(): print, then sys.exit(0).
Bye == <<"See you later!">>

LessonsChangedMsg == <<"Lessons changed - aborting">>

\* handle_lessons_changed that prints and does not quit.
handle_lessons_changed_no_quit ==
    [says |-> <<LessonsChangedMsg>>, end |-> "returned"]

\* handle_lessons_changed: print, then quit().
handle_lessons_changed ==
    [says |-> <<LessonsChangedMsg, Bye>>, end |-> "system_exit"]

\* An attempt sent for the entry task of the lesson, whatever task the
\* engine is on.
attempt_lesson_remote_entry_task(se, le, ta, user_input) ==
    LET found == {i \in 1..Len(Lessons) : Lessons[i].name = le}
    IN  [session |-> se, lesson |-> le,
         task |-> IF found = {} THEN ta
                  ELSE Lessons[CHOOSE i \in found : TRUE].entry,
         input |-> user_input]

\* call_attempt_lesson_remote as handle_user_input calls it: with _session,
\* _lesson and _task as they are at the call, and the input as read.
attempt_lesson_remote(se, le, ta, user_input) ==
    [session |-> se, lesson |-> le, task |-> ta, input |-> user_input]

\* A submission that leaves the state as it is.
StateOnSubmitUnchanged(st) == st

\* The state handle_user_input sets before it calls attempt_lesson_remote.
StateOnSubmit(st) == "submit"

\* handle_user_input(user_input) with the fields as given.
handle_user_input(user_input, st, le, ta, se, unl, nh, oo) ==
    LET same == [state |-> st, lesson |-> le, task |-> ta, session |-> se,
                 closed |-> <<>>, opened |-> -1, end |-> "exception",
                 out |-> <<>>, shown |-> 0, read |-> 0, says |-> <<>>,
                 sent |-> FALSE, value |-> None]
    IN  IF user_input \in {sQuit, sExit}
        THEN [same EXCEPT !.end = "system_exit", !.says = <<Bye>>]
        ELSE IF Strip(user_input) = sShowmehow /\ le # sShowmehow
        THEN IF get_unlocked_tasks(Lessons, unl).ok
             THEN [same EXCEPT !.end = "system_exit", !.says = <<Bye>>,
                               !.out = << <<"tasks">> >>]
             ELSE same
        ELSE IF StartsWith(user_input, sShowmehow) /\ le # sShowmehow
        THEN LET parts == ReSplitOnce(user_input)
                 u == get_unlocked_tasks(Lessons, unl)
             IN  IF Len(parts) # 2 THEN same
                 ELSE IF ~u.ok THEN same
                 ELSE LET f == find_task_or_report_error(u.val, parts[2])
                          i == initialize(f.task, f.entry, se, nh, oo)
                      IN  [i EXCEPT !.out = f.out \o i.out]
                            @@ [says |-> <<>>, sent |-> FALSE, value |-> None]
        ELSE [same EXCEPT !.state = StateOnSubmit(st), !.end = "inflight",
                          !.sent = TRUE, !.value = user_input]

\* The Effect the answer rep selects on task ta of lesson le.
EffectOf(le, ta, rep) == find_task_json(Lessons, le, ta).val.effects[rep.result]

\* NextStep with the move to another task tested before the completion.
NextStepMoveFirst(completes_lesson, next_task_id, ta) ==
    IF next_task_id # ta THEN "advance"
    ELSE IF completes_lesson THEN "complete"
    ELSE "retry"

\* NextStep without the retry branch: every Effect that does not complete
\* the lesson goes through _show_next_task.
NextStepRefetch(completes_lesson, next_task_id, ta) ==
    IF completes_lesson THEN "complete" ELSE "advance"

\* NextStep without the advance: an Effect that does not complete the lesson
\* always waits again on the current task.
NextStepNeverAdvances(completes_lesson, next_task_id, ta) ==
    IF completes_lesson THEN "complete" ELSE "retry"

\* The branch handle_attempt_lesson_remote takes once the side effects are
\* dispatched: completion first, then retry when the next task is the
\* current one, otherwise the advance.
NextStep(completes_lesson, next_task_id, ta) ==
    IF completes_lesson THEN "complete"
    ELSE IF next_task_id = ta THEN "retry"
    ELSE "advance"

\* attempt_lesson_remote_finish with the failure taken for a "fail" grade.
attempt_lesson_remote_finish_lenient(rep) ==
    IF rep.kind = "error"
    THEN [raised |-> FALSE, result |-> "fail", responses |-> <<>>]
    ELSE [raised |-> FALSE, result |-> rep.result, responses |-> rep.responses]

\* call_attempt_lesson_remote_finish(result) and json.loads of what it
\* returns: raised when the call failed.
attempt_lesson_remote_finish(rep) ==
    IF rep.kind = "error"
    THEN [raised |-> TRUE, result |-> "", responses |-> <<>>]
    ELSE [raised |-> FALSE, result |-> rep.result, responses |-> rep.responses]

\* The output with the side effects dispatched before anything is shown.
ShowThenDispatchReversed(shown, dispatched) ==
    dispatched \o shown \o << <<"reply">> >>

\* What handle_attempt_lesson_remote has put out when its loop over the side
\* effects ends: the responses shown, the Effect's reply, then the side
\* effects dispatched.
ShowThenDispatch(shown, dispatched) ==
    shown \o << <<"reply">> >> \o dispatched

\* The event handle_attempt_lesson_remote fires when a lesson completes.
LessonCompleted == Ev("showmehow-lesson-completed")

\* handle_attempt_lesson_remote, entered in state st on task ta of lesson le
\* with wait time w.  rep is the service's answer, outs what the secondary
\* service does with each declared side effect, synth what it does with the
\* lesson-completed event.
handle_attempt_lesson_remote(st, le, ta, w, rep, outs, synth) ==
    LET same == [state |-> st, task |-> ta, wait |-> w, out |-> <<>>,
                 end |-> "exception", says |-> <<>>, completed |-> 0,
                 shown |-> 0, read |-> 0, applied |-> 0]
        fin == attempt_lesson_remote_finish(rep)
    IN  IF st # "submit" THEN [same EXCEPT !.out = <<AssertionError>>]
        ELSE IF fin.raised
        THEN [same EXCEPT !.end = "system_exit",
                          !.says = << <<"Internal error in attempting", ta>> >>]
        ELSE
        LET result_desc == EffectOf(le, ta, fin)
            next_task_id == Get(result_desc, "move_to", ta)
            completes_lesson == Get(result_desc, "completes_lesson", FALSE)
            side_effects == Get(result_desc, "side_effects", <<>>)
            r == ShowResponses(fin.responses, w)
            got == [same EXCEPT !.applied = 1, !.wait = r.wait, !.out = r.out]
        IN  IF ~r.ok THEN got
            ELSE
            LET d == DispatchAll(side_effects, outs)
                ran == [got EXCEPT !.state = "running_side_effects",
                                   !.out = ShowThenDispatch(r.out, d.out)]
                step == NextStep(completes_lesson, next_task_id, ta)
            IN  IF ~d.ok THEN ran
                ELSE IF step = "complete"
                THEN LET called == [ran EXCEPT
                           !.completed = 1,
                           !.out = ran.out \o
                             << <<"side_effect", LessonCompleted.value, synth>> >>]
                     IN  IF dispatch_side_effect(LessonCompleted, synth)
                         THEN [called EXCEPT !.end = "loop_quit",
                                             !.out = called.out \o << <<"loop_quit">> >>]
                         ELSE called
                ELSE IF step = "retry"
                THEN [ran EXCEPT !.state = "waiting", !.end = "input",
                                 !.read = 1,
                                 !.out = ran.out \o << <<"prompt">> >>]
                ELSE LET n == show_next_task("fetching", le, next_task_id)
                     IN  [ran EXCEPT !.state = n.state, !.task = next_task_id,
                                     !.end = n.end, !.shown = n.shown,
                                     !.read = n.read,
                                     !.out = ran.out \o n.out]

(* ------------------------------------------------------------------ *)
(* What the user and the services may do                               *)
(* ------------------------------------------------------------------ *)

\* What the user may type at the prompt.
Inputs ==
    { sQuit, sExit,
      sShowmehow, sShowmehow \o sCr, sShowmehow \o sSp \o sCd,
      sShowmehow \o <<"x">>,
      sLs, sNbsp \o sLs \o sSp, <<>>, <<"2">> }

\* What input() may raise instead of returning a line: EOFError at the end of
\* input, KeyboardInterrupt on Ctrl-C.
InputExceptions == {"EOFError", "KeyboardInterrupt"}

\* What lastInput holds when display_input() raised exc and returned nothing.
Raised(exc) == <<exc>>

\* The TASK argument main may be run with: none, the empty string, a lesson.
TaskArguments == {None, <<>>, sCd}

\* The responses an answer may carry: none, known rendering kinds, and a
\* kind _RESPONSE_ACTIONS does not know, first or after a known one.
ResponseSeqs ==
    { <<>>, <<"raw">>, <<"scroll_wait", "wrapped">>,
      <<"scroll_wait", "scroll_wait">>, <<"bogus">>, <<"scrolled", "bogus">> }

Answers ==
    {[kind |-> "error"]} \cup
    {[kind |-> "ok", result |-> res, responses |-> rs] :
        res \in {"success", "fail"}, rs \in ResponseSeqs}

(* ------------------------------------------------------------------ *)
(* Init and the actions                                                *)
(* ------------------------------------------------------------------ *)

\* remindmehow not running.
RemindOff ==
    /\ r_mon = "new"
    /\ r_flag = FALSE
    /\ r_state = "OFF"
    /\ r_lesson = sCd
    /\ r_task = "c1"
    /\ r_pending = None
    /\ r_inflight = FALSE
    /\ r_result = ""
    /\ r_accepted = 0
    /\ r_sent = <<>>
    /\ r_msg = ""
    /\ r_fetches = 0

\* main() entered: no engine yet, nothing called at the services.
MainEntered ==
    /\ lesson = None
    /\ task = NoneTask
    /\ state = Unset
    /\ session = -1
    /\ wait_time = 3
    /\ pc = "main"
    /\ unwinds \in BOOLEAN
    /\ unlocked \in {<<>>, <<sCd>>}
    /\ svcOpen = {}
    /\ closeCalls = <<>>
    /\ nextHandle = 1
    /\ lastSent = NoSent
    /\ nSent = 0
    /\ reply = NoReply
    /\ lcPending = FALSE
    /\ descShown = 0
    /\ inputsRead = 0
    /\ trace = <<>>
    /\ printed = <<>>
    /\ nCompleted = 0
    /\ nApplied = 0
    /\ lastInput = None
    /\ lcRound = 0
    /\ abortedFrom = "none"
    /\ lessonEvents = NoNotification

\* The state after PracticeTaskStateMachine.__init__ for the i-th lesson,
\* which ends in _initialize(lesson, task) with no session held: the class
\* constructed by a caller that has a lesson and its entry task.  main's own
\* call (see Main) is not reached with get_unlocked_tasks as it is.  The
\* unlocked-lessons setting is read again by every later get_unlocked_tasks.
Constructed(i) ==
    /\ lesson = Lessons[i].name
    /\ task = Lessons[i].entry
    /\ state = "fetching"
    /\ session = -1
    /\ wait_time = 3
    /\ pc = "constructed"
    /\ unwinds \in BOOLEAN
    /\ unlocked \in {<<>>, <<sCd>>}
    /\ svcOpen = {}
    /\ closeCalls = <<>>
    /\ nextHandle = 1
    /\ lastSent = NoSent
    /\ nSent = 0
    /\ reply = NoReply
    /\ lcPending = FALSE
    /\ descShown = 0
    /\ inputsRead = 0
    /\ trace = <<>>
    /\ printed = <<>>
    /\ nCompleted = 0
    /\ nApplied = 0
    /\ lastInput = None
    /\ lcRound = 0
    /\ abortedFrom = "none"
    /\ lessonEvents = NoNotification

\* A run starts in main, or with the engine constructed directly.
Init ==
    /\ \/ MainEntered
       \/ \E i \in 1..Len(Lessons) : Constructed(i)
    /\ RemindOff

\* The sessions open at the service after the engine closed `closed` and was
\* handed `opened`.
ServiceAfter(open, closed, opened) ==
    (open \ {closed[i] : i \in 1..Len(closed)}) \cup
    (IF opened # -1 THEN {opened} ELSE {})

\* main(argv) up to the with statement.  NONINTERACTIVE gives the canned
\* script; otherwise get_unlocked_tasks is called (NameError when a lesson
\* is unlocked), --list prints the names and exits, the banner is printed
\* when something is unlocked, and find_task_or_report_error looks the TASK
\* argument up: main returns when it finds nothing and constructs the engine
\* when it does.
Main(task_arg, list, noninteractive) ==
    /\ pc = "main"
    /\ LET u == get_unlocked_tasks(Lessons, unlocked)
           f == find_task_or_report_error(u.val, task_arg)
           banner == IF Len(u.val) # 0 THEN << <<"banner">> >> ELSE <<>>
       IN  IF noninteractive
           THEN /\ pc' = "returned"
                /\ trace' = IF ~Truthy(task_arg) THEN << <<"tasks">> >>
                            ELSE << <<"canned">> >>
                /\ UNCHANGED <<lesson, task, state>>
           ELSE IF ~u.ok
           THEN /\ pc' = "crashed"
                /\ UNCHANGED <<lesson, task, state, trace>>
           ELSE IF list
           THEN /\ pc' = "exited"
                /\ trace' = [i \in 1..Len(u.val) |-> <<"name", u.val[i][1]>>]
                /\ UNCHANGED <<lesson, task, state>>
           ELSE IF ~Truthy(f.task) \/ f.entry \in {NoneTask, ""}
           THEN /\ pc' = "returned"
                /\ trace' = banner \o f.out
                /\ UNCHANGED <<lesson, task, state>>
           ELSE /\ pc' = "constructed"
                /\ trace' = banner \o f.out
                /\ lesson' = f.task
                /\ task' = f.entry
                /\ state' = "fetching"
    /\ UNCHANGED <<session, wait_time, unwinds, unlocked, svcOpen, closeCalls,
                   nextHandle, lastSent, nSent, reply, lcPending, descShown,
                   inputsRead, printed, nCompleted, nApplied, lastInput,
                   lcRound, abortedFrom>>
    /\ UNCHANGED lessonEvents
    /\ UNCHANGED rvars

\* main's with statement and start(): __enter__ opens a session for the
\* lesson, start() schedules _show_next_task and runs the main loop.
Enter ==
    /\ pc = "constructed"
    /\ LET o == open_session(lesson, nextHandle, "raise")
       IN  /\ session' = o.handle
           /\ svcOpen' = ServiceAfter(svcOpen, <<>>, o.handle)
           /\ nextHandle' = IF o.handle # -1 THEN nextHandle + 1 ELSE nextHandle
    /\ pc' = "start"
    /\ UNCHANGED <<state, lesson, task, wait_time, unwinds, unlocked,
                   closeCalls, lastSent, nSent, reply, lcPending,
                   descShown, inputsRead, trace, printed, nCompleted, nApplied,
                   lastInput, lcRound, abortedFrom>>
    /\ UNCHANGED lessonEvents
    /\ UNCHANGED rvars

\* The idle callback: _show_next_task for the entry task.  An idle source
\* runs only when the main loop has nothing else to dispatch.
ShowNextTask ==
    /\ pc = "start"
    /\ ~lcPending
    /\ LET n == show_next_task(state, lesson, task)
           f == Finish(n.end, session, svcOpen, closeCalls, unwinds)
       IN  /\ state' = n.state
           /\ trace' = n.out
           /\ descShown' = descShown + n.shown
           /\ inputsRead' = inputsRead + n.read
           /\ pc' = f.pc
           /\ session' = f.session
           /\ svcOpen' = f.open
           /\ closeCalls' = f.calls
    /\ UNCHANGED <<lesson, task, wait_time, unwinds, unlocked, nextHandle,
                   lastSent, nSent, reply, lcPending, printed,
                   nCompleted, nApplied,
                   lastInput, lcRound, abortedFrom>>
    /\ UNCHANGED lessonEvents
    /\ UNCHANGED rvars

\* The user answers the prompt: display_input() returns user_input and
\* handle_user_input runs until the process blocks, returns to the main loop
\* or ends.
UserInput(user_input) ==
    /\ pc = "input"
    /\ \E oo \in (IF session # -1 THEN OpenOutcomes ELSE {"raise"}) :
         LET h == handle_user_input(user_input, state, lesson, task, session,
                                    unlocked, nextHandle, oo)
             open1 == ServiceAfter(svcOpen, h.closed, h.opened)
             f == Finish(h.end, h.session, open1, closeCalls \o h.closed,
                         unwinds)
         IN  /\ h.sent => nSent < MaxRounds
             /\ state' = h.state
             /\ lesson' = h.lesson
             /\ task' = h.task
             /\ trace' = h.out
             /\ descShown' = descShown + h.shown
             /\ inputsRead' = inputsRead + h.read
             /\ printed' = printed \o h.says
             /\ nextHandle' = IF h.opened # -1 THEN nextHandle + 1
                              ELSE nextHandle
             /\ lastSent' = IF h.sent
                            THEN attempt_lesson_remote(session, lesson, task,
                                                       h.value)
                            ELSE lastSent
             /\ nSent' = IF h.sent THEN nSent + 1 ELSE nSent
             /\ pc' = f.pc
             /\ session' = f.session
             /\ svcOpen' = f.open
             /\ closeCalls' = f.calls
    /\ reply' = NoReply
    /\ lastInput' = user_input
    /\ UNCHANGED <<wait_time, unwinds, unlocked, lcPending,
                   nCompleted, nApplied,
                   lcRound, abortedFrom>>
    /\ UNCHANGED lessonEvents
    /\ UNCHANGED rvars

\* display_input() raises exc instead of returning: handle_user_input is not
\* called and the exception leaves the main-loop callback that asked for the
\* input, which catches nothing.  If it unwinds through _loop.run(), start()
\* catches KeyboardInterrupt and calls quit(), and any exception leaves
\* main's with block through __exit__; otherwise it is reported and the main
\* loop goes on with nothing scheduled.
DisplayInputRaises(exc) ==
    /\ pc = "input"
    /\ LET f == Finish("exception", session, svcOpen, closeCalls, unwinds)
           caught == unwinds /\ exc = "KeyboardInterrupt"
       IN  /\ pc' = IF caught THEN "exited" ELSE f.pc
           /\ printed' = IF caught THEN Append(printed, Bye) ELSE printed
           /\ session' = f.session
           /\ svcOpen' = f.open
           /\ closeCalls' = f.calls
    /\ lastInput' = Raised(exc)
    /\ UNCHANGED <<state, lesson, task, wait_time, unwinds, unlocked,
                   nextHandle, lastSent, nSent, reply, lcPending, descShown,
                   inputsRead, trace, nCompleted, nApplied, lcRound,
                   abortedFrom>>
    /\ UNCHANGED lessonEvents
    /\ UNCHANGED rvars

\* The primary service answers the attempt in flight, or the call fails.
ServiceAnswers(a) ==
    /\ pc = "inflight"
    /\ reply = NoReply
    /\ reply' = a
    /\ UNCHANGED <<state, lesson, task, session, wait_time, pc, unwinds,
                   unlocked, svcOpen, closeCalls, nextHandle, lastSent, nSent,
                   lcPending, descShown, inputsRead, trace, printed,
                   nCompleted, nApplied,
                   lastInput, lcRound, abortedFrom>>
    /\ UNCHANGED lessonEvents
    /\ UNCHANGED rvars

\* What the secondary service may do with the side effects the Effect
\* declares: one outcome for each.
OutcomeSeqs(st, le, ta, rep) ==
    IF rep.kind = "ok"
    THEN [1..Len(Get(EffectOf(le, ta, rep), "side_effects", <<>>)) -> Outcomes]
    ELSE {<<>>}

\* What it may do with the lesson-completed event, when one is due.
SynthOutcomes(st, le, ta, rep) ==
    IF rep.kind = "ok" /\ Get(EffectOf(le, ta, rep), "completes_lesson", FALSE)
    THEN Outcomes
    ELSE {"ok"}

\* The main loop dispatches the completion callback of the attempt.
AttemptLessonRemoteDone ==
    /\ pc = "inflight"
    /\ reply # NoReply
    /\ \E outs \in OutcomeSeqs(state, lesson, task, reply),
          synth \in SynthOutcomes(state, lesson, task, reply) :
         LET h == handle_attempt_lesson_remote(state, lesson, task, wait_time,
                                               reply, outs, synth)
             f == Finish(h.end, session, svcOpen, closeCalls, unwinds)
         IN  /\ state' = h.state
             /\ task' = h.task
             /\ wait_time' = h.wait
             /\ trace' = h.out
             /\ printed' = printed \o h.says
             /\ nCompleted' = nCompleted + h.completed
             /\ nApplied' = nApplied + h.applied
             /\ descShown' = descShown + h.shown
             /\ inputsRead' = inputsRead + h.read
             /\ pc' = f.pc
             /\ session' = f.session
             /\ svcOpen' = f.open
             /\ closeCalls' = f.calls
    /\ reply' = NoReply
    /\ UNCHANGED <<lesson, unwinds, unlocked, nextHandle, lastSent, nSent,
                   lcPending,
                   lastInput, lcRound, abortedFrom>>
    /\ UNCHANGED lessonEvents
    /\ UNCHANGED rvars

\* The primary service emits lessons-changed, to which __init__ connected
\* the engine.
EmitLessonsChanged ==
    /\ ~Terminated
    /\ pc # "main"
    /\ ~lcPending
    /\ lcPending' = TRUE
    /\ lcRound' = IF pc = "inflight" THEN nSent ELSE 0
    /\ UNCHANGED <<state, lesson, task, session, wait_time, pc, unwinds,
                   unlocked, svcOpen, closeCalls, nextHandle, lastSent, nSent,
                   reply, descShown, inputsRead, trace, printed, nCompleted,
                   nApplied,
                   lastInput, abortedFrom>>
    /\ UNCHANGED lessonEvents
    /\ UNCHANGED rvars

\* The main loop dispatches the signal to handle_lessons_changed, which
\* prints and quits.  Signals are dispatched by the main loop only, not while
\* the process is blocked in display_input() or inside another handler.
HandleLessonsChanged ==
    /\ InMainLoop
    /\ lcPending
    /\ lcPending' = FALSE
    /\ abortedFrom' = pc
    /\ printed' = printed \o handle_lessons_changed.says
    /\ LET f == Finish(handle_lessons_changed.end, session, svcOpen,
                       closeCalls, unwinds)
       IN  /\ pc' = f.pc
           /\ session' = f.session
           /\ svcOpen' = f.open
           /\ closeCalls' = f.calls
    /\ UNCHANGED <<state, lesson, task, wait_time, unwinds, unlocked,
                   nextHandle, lastSent, nSent, reply, descShown,
                   inputsRead, trace, nCompleted, nApplied,
                   lastInput, lcRound>>
    /\ UNCHANGED lessonEvents
    /\ UNCHANGED rvars

\* The tasks of the lessons, as (lesson, task) pairs.
LessonTasks ==
    UNION {{<<Lessons[i].name, t>> : t \in DOMAIN Lessons[i].practice} :
              i \in 1..Len(Lessons)}

\* The tasks that wait for external events: those the service notifies about.
ExternalEventTasks ==
    {lt \in LessonTasks :
        find_task_json(Lessons, lt[1], lt[2]).val.input.type = "external_events"}

\* lesson_events_satisfied(_, l, t) with the fields as given: in state
\* "waiting_lesson_events" on lesson l and task t it sets the state to
\* "submit" and calls attempt_lesson_remote with the empty string; otherwise
\* it does nothing.  __init__ connects no signal to it and nothing calls it.
lesson_events_satisfied(st, le, ta, l, t) ==
    IF st = "waiting_lesson_events" /\ le = l /\ ta = t
    THEN [state |-> "submit", sent |-> TRUE, value |-> <<>>]
    ELSE [state |-> st, sent |-> FALSE, value |-> None]

\* The primary service notifies that the events of task t of lesson l, the
\* task being practised, happened.  The engine's only connection is the one
\* for lessons-changed, so nothing of the engine runs on it, wherever the
\* process is.
LessonEventsNotified(l, t) ==
    /\ ~Terminated
    /\ pc \notin {"main", "constructed"}
    /\ lesson = l
    /\ task = t
    /\ lessonEvents = NoNotification
    /\ lessonEvents' = <<l, t>>
    /\ UNCHANGED <<state, lesson, task, session, wait_time, pc, unwinds,
                   unlocked, svcOpen, closeCalls, nextHandle, lastSent, nSent,
                   reply, lcPending, descShown, inputsRead, trace, printed,
                   nCompleted, nApplied, lastInput, lcRound, abortedFrom>>
    /\ UNCHANGED rvars

\* _loop.run() returns after _loop.quit(): start() returns, the with block
\* of main is left and __exit__ closes the session held.
LoopReturns ==
    /\ pc = "quit_requested"
    /\ pc' = "done"
    /\ LET e == Exit(session, svcOpen, closeCalls)
       IN  /\ session' = e.session
           /\ svcOpen' = e.open
           /\ closeCalls' = e.calls
    /\ UNCHANGED <<state, lesson, task, wait_time, unwinds, unlocked,
                   nextHandle, lastSent, nSent, reply, lcPending, descShown,
                   inputsRead, trace, printed, nCompleted, nApplied,
                   lastInput, lcRound, abortedFrom>>
    /\ UNCHANGED lessonEvents
    /\ UNCHANGED rvars

\* start(): _loop.run() raises KeyboardInterrupt and the except clause calls
\* quit(), which prints and raises SystemExit in start()'s own frame, outside
\* any callback: it unwinds through main's with block and __exit__ closes
\* the session held.
KeyboardInterrupt ==
    /\ InMainLoop
    /\ pc' = "exited"
    /\ printed' = Append(printed, Bye)
    /\ LET e == Exit(session, svcOpen, closeCalls)
       IN  /\ session' = e.session
           /\ svcOpen' = e.open
           /\ closeCalls' = e.calls
    /\ UNCHANGED <<state, lesson, task, wait_time, unwinds, unlocked,
                   nextHandle, lastSent, nSent, reply, lcPending, descShown,
                   inputsRead, trace, nCompleted, nApplied,
                   lastInput, lcRound, abortedFrom>>
    /\ UNCHANGED lessonEvents
    /\ UNCHANGED rvars

Next ==
    \/ \E ta \in TaskArguments, li \in BOOLEAN, ni \in BOOLEAN : Main(ta, li, ni)
    \/ Enter
    \/ ShowNextTask
    \/ \E u \in Inputs : UserInput(u)
    \/ \E exc \in InputExceptions : DisplayInputRaises(exc)
    \/ \E a \in Answers : ServiceAnswers(a)
    \/ AttemptLessonRemoteDone
    \/ LoopReturns
    \/ KeyboardInterrupt
    \/ EmitLessonsChanged
    \/ HandleLessonsChanged
    \/ \E lt \in ExternalEventTasks : LessonEventsNotified(lt[1], lt[2])

Spec == Init /\ [][Next]_vars

(* ------------------------------------------------------------------ *)
(* remindmehow: practice_task under a ReloadMonitor                    *)
(*                                                                     *)
(* remindmehow.main runs practice_task(service, monitor, ...) inside   *)
(* "with ReloadMonitor(service) as monitor".  Neither is defined in    *)
(* the sources at hand; both are modelled from the specification: the  *)
(* monitor of its section 4.3, the engine of the table of section 4.4. *)
(* ------------------------------------------------------------------ *)

\* A listener that flips the flag on every notification.
OnContentChangedToggles(flag) == ~flag

\* The monitor's listener on a content-changed notification: the flag is set,
\* whatever it was.
OnContentChanged(flag) == TRUE

\* Reloaded(): the flag, read without blocking.
Reloaded(flag) == flag

\* Checkpoint that sends whatever the flag says.
CheckpointSkipped(flag) == "dispatch"

\* The checkpoint immediately before a submission is sent: Reloaded()
\* overrides the submission.
Checkpoint(flag) == IF flag THEN "abort" ELSE "dispatch"

\* Where APPLYING_EFFECTS leads for an Effect.
R_After(effect, current) ==
    IF Get(effect, "completes_lesson", FALSE) THEN "DONE"
    ELSE IF Get(effect, "move_to", current) = current THEN "WAITING"
    ELSE "FETCHING"

\* remindmehow.main enters the monitor, whose Start() subscribes to the
\* content-changed notification, and calls practice_task.
R_Start ==
    /\ r_mon = "new"
    /\ r_mon' = "started"
    /\ r_state' = "FETCHING"
    /\ UNCHANGED <<r_flag, r_lesson, r_task, r_pending, r_inflight, r_result,
                   r_accepted, r_sent, r_msg, r_fetches>>
    /\ UNCHANGED evars

\* The monitor's listener receives a content-changed notification.
R_ContentChanged ==
    /\ r_mon = "started"
    /\ r_flag' = OnContentChanged(r_flag)
    /\ UNCHANGED <<r_mon, r_state, r_lesson, r_task, r_pending, r_inflight,
                   r_result, r_accepted, r_sent, r_msg, r_fetches>>
    /\ UNCHANGED evars

\* FETCHING: the description is fetched, or the fetch fails.
R_Fetched(ok) ==
    /\ r_state = "FETCHING"
    /\ r_fetches' = r_fetches + 1
    /\ r_state' = IF ok THEN "WAITING" ELSE "ABORTED"
    /\ r_msg' = IF ok THEN r_msg ELSE "fetch failed"
    /\ UNCHANGED <<r_mon, r_flag, r_lesson, r_task, r_pending, r_inflight,
                   r_result, r_accepted, r_sent>>
    /\ UNCHANGED evars

\* WAITING: the quit command, an input that converts, or one that does not.
R_Input(raw) ==
    /\ r_state = "WAITING"
    /\ LET c == handle_user_input_text(raw)
       IN  IF raw \in {sQuit, sExit}
           THEN /\ r_state' = "ABORTED"
                /\ r_msg' = "farewell"
                /\ UNCHANGED <<r_pending, r_accepted>>
           ELSE IF c.accepted
           THEN /\ r_accepted < MaxRounds
                /\ r_state' = "SUBMIT"
                /\ r_pending' = c.value
                /\ r_accepted' = r_accepted + 1
                /\ UNCHANGED r_msg
           ELSE UNCHANGED <<r_state, r_msg, r_pending, r_accepted>>
    /\ UNCHANGED <<r_mon, r_flag, r_lesson, r_task, r_inflight, r_result,
                   r_sent, r_fetches>>
    /\ UNCHANGED evars

\* SUBMIT, before the submission is sent: the checkpoint.
R_Checkpoint ==
    /\ r_state = "SUBMIT"
    /\ ~r_inflight
    /\ IF Checkpoint(Reloaded(r_flag)) = "abort"
       THEN /\ r_state' = "ABORTED"
            /\ r_msg' = "content changed"
            /\ UNCHANGED <<r_sent, r_inflight, r_pending>>
       ELSE /\ r_sent' = Append(r_sent, [task |-> r_task, input |-> r_pending])
            /\ r_inflight' = TRUE
            /\ r_pending' = None
            /\ UNCHANGED <<r_state, r_msg>>
    /\ UNCHANGED <<r_mon, r_flag, r_lesson, r_task, r_result, r_accepted,
                   r_fetches>>
    /\ UNCHANGED evars

\* SUBMIT, the submission sent: the grading result arrives, or the call fails.
R_Result(res) ==
    /\ r_state = "SUBMIT"
    /\ r_inflight
    /\ r_inflight' = FALSE
    /\ r_state' = IF res = "rpc_failed" THEN "ABORTED" ELSE "APPLYING_EFFECTS"
    /\ r_result' = IF res = "rpc_failed" THEN r_result ELSE res
    /\ r_msg' = IF res = "rpc_failed" THEN "fatal error" ELSE r_msg
    /\ UNCHANGED <<r_mon, r_flag, r_lesson, r_task, r_pending, r_accepted,
                   r_sent, r_fetches>>
    /\ UNCHANGED evars

\* APPLYING_EFFECTS: render, dispatch the side effects, then branch.
R_Apply ==
    /\ r_state = "APPLYING_EFFECTS"
    /\ LET e == EffectOf(r_lesson, r_task, [result |-> r_result])
       IN  /\ r_state' = R_After(e, r_task)
           /\ r_task' = IF R_After(e, r_task) = "FETCHING" THEN e.move_to
                        ELSE r_task
    /\ UNCHANGED <<r_mon, r_flag, r_lesson, r_pending, r_inflight, r_result,
                   r_accepted, r_sent, r_msg, r_fetches>>
    /\ UNCHANGED evars

\* The with block of remindmehow.main is left: the monitor's Stop().
R_Stop ==
    /\ r_state \in {"DONE", "ABORTED"}
    /\ r_mon = "started"
    /\ r_mon' = "stopped"
    /\ UNCHANGED <<r_flag, r_state, r_lesson, r_task, r_pending, r_inflight,
                   r_result, r_accepted, r_sent, r_msg, r_fetches>>
    /\ UNCHANGED evars

\* remindmehow about to practise the i-th lesson; showmehow's engine is not
\* run.
InitRemind ==
    /\ Constructed(2)
    /\ ~unwinds
    /\ unlocked = <<>>
    /\ \E i \in 2..3 :
          /\ r_lesson = Lessons[i].name
          /\ r_task = Lessons[i].entry
    /\ r_mon = "new"
    /\ r_flag = FALSE
    /\ r_state = "OFF"
    /\ r_pending = None
    /\ r_inflight = FALSE
    /\ r_result = ""
    /\ r_accepted = 0
    /\ r_sent = <<>>
    /\ r_msg = ""
    /\ r_fetches = 0

NextRemind ==
    \/ R_Start
    \/ R_ContentChanged
    \/ \E ok \in BOOLEAN : R_Fetched(ok)
    \/ \E raw \in Inputs : R_Input(raw)
    \/ R_Checkpoint
    \/ \E res \in {"success", "fail", "rpc_failed"} : R_Result(res)
    \/ R_Apply
    \/ R_Stop

SpecRemind == InitRemind /\ [][NextRemind]_vars

(* ------------------------------------------------------------------ *)
(* Properties                                                          *)
(* ------------------------------------------------------------------ *)

\* The step is the completion callback taking the answer in flight.
CallbackStep == pc = "inflight" /\ reply # NoReply /\ reply' = NoReply

\* The step is handle_user_input taking what display_input() returned.
InputStep ==
    /\ pc = "input"
    /\ inputsRead' >= inputsRead
    /\ lcPending' = lcPending
    /\ \A exc \in InputExceptions : lastInput' # Raised(exc)

\* The step is handle_lessons_changed.
LessonsChangedStep == lcPending /\ ~lcPending'

\* The answer in flight is a grading result whose responses all have a
\* rendering kind show_response knows.
Graded ==
    /\ reply.kind = "ok"
    /\ \A i \in 1..Len(reply.responses) : reply.responses[i] \in ResponseTypes

\* How often the lesson-completed event occurs in the handler's record tr.
CompletedCalls(tr) ==
    Cardinality({i \in 1..Len(tr) :
                    /\ Len(tr[i]) = 3
                    /\ tr[i][1] = "side_effect"
                    /\ tr[i][2] = LessonCompleted.value})

\* C1: when the completion callback applies an Effect that has
\* completes_lesson set, it dispatches the lesson-completed event exactly
\* once and then quits the main loop, whatever move_to says, reading and
\* submitting nothing.  Over a whole run the event is dispatched at most
\* once, always before the process is done, and once it is dispatched the
\* engine only stops: no input is read, no description shown and no
\* submission sent after it.
C1_CompletedOnceThenDone ==
    /\ [](nCompleted \in {0, 1})
    /\ [](pc = "done" => nCompleted = 1)
    /\ [](nCompleted = 1 => pc \in {"quit_requested", "done", "exited"})
    /\ [][ nCompleted = 1
           => UNCHANGED <<nCompleted, inputsRead, descShown, nSent, nApplied,
                          lesson, task>> ]_vars
    /\ [][ (CallbackStep /\ Graded
              /\ Get(EffectOf(lesson, task, reply), "completes_lesson", FALSE))
           => /\ pc' = "quit_requested"
              /\ nCompleted' = nCompleted + 1
              /\ CompletedCalls(trace') = 1
              /\ trace'[Len(trace')] = <<"loop_quit">>
              /\ trace'[Len(trace') - 1][2] = LessonCompleted.value
              /\ inputsRead' = inputsRead
              /\ descShown' = descShown
              /\ nSent' = nSent
              /\ task' = task ]_vars

\* C1 witness: a lesson completed on an Effect that also names another task.
C1_Witness ==
    /\ pc = "done"
    /\ nCompleted = 1
    /\ lesson = sLs
    /\ task = "l1"
    /\ trace[Len(trace)] = <<"loop_quit">>

\* C2: when the completion callback applies an Effect that does not complete
\* the lesson and whose move_to is absent or names the current task, the
\* engine waits for input again on the same task: lesson, task and session
\* are unchanged, no session is opened or closed, and no task description is
\* shown.
C2_RetryKeepsTask ==
    [][ (CallbackStep /\ Graded
           /\ ~Get(EffectOf(lesson, task, reply), "completes_lesson", FALSE)
           /\ Get(EffectOf(lesson, task, reply), "move_to", task) = task)
        => /\ pc' = "input"
           /\ state' = "waiting"
           /\ lesson' = lesson
           /\ task' = task
           /\ session' = session
           /\ svcOpen' = svcOpen
           /\ closeCalls' = closeCalls
           /\ descShown' = descShown
           /\ inputsRead' = inputsRead + 1 ]_vars

\* C2 witness: the engine waits again after an Effect whose move_to names
\* the current task.
C2_Witness ==
    /\ pc = "input"
    /\ lesson = sCd
    /\ task = "c2"
    /\ nApplied = 2
    /\ descShown = 2
    /\ trace[Len(trace)] = <<"prompt">>
    /\ \E i \in 1..Len(trace) : trace[i] = <<"reply">>

\* C3: a side effect on which the secondary service answers "not interested"
\* is followed by the next side effect or the transition, and one on which
\* it fails otherwise is the last thing its handler did: no side effect and
\* no transition follows it.
C3_OnlyNotInterestedSwallowed ==
    \A i \in 1..Len(trace) :
        (Len(trace[i]) = 3 /\ trace[i][1] = "side_effect")
        => /\ trace[i][3] = "not_interested" => i < Len(trace)
           /\ trace[i][3] = "other_error" =>
                 (i = Len(trace) /\ pc \in {"hung", "crashed"})

\* C4: a process that ended (lesson completed, quit, lessons changed, failed
\* attempt) left no session open at the service.
C4_NoSessionLeftOpen ==
    pc \in {"done", "exited"} => svcOpen = {}

\* C5: at most one session is open at the service, it is the one the engine
\* holds, and no handle is closed twice.
C5_OneSessionAtATime ==
    /\ Cardinality(svcOpen) <= 1
    /\ svcOpen \subseteq {session}
    /\ \A i, j \in 1..Len(closeCalls) :
          closeCalls[i] = closeCalls[j] => i = j
    /\ \A i \in 1..Len(closeCalls) : closeCalls[i] \in 1..(nextHandle - 1)

\* C5 witness: after 'showmehow X' the first session is closed and a second
\* one is open.
C5_Witness ==
    /\ closeCalls = <<1>>
    /\ svcOpen = {2}
    /\ session = 2

\* C7: what is submitted for an input is the input trimmed, and only an
\* input that is not empty once trimmed is submitted; any other leaves the
\* engine waiting on the same task.
C7_TextInputTrimmed ==
    [][ InputStep =>
          LET c == handle_user_input_text(lastInput')
          IN  /\ nSent' = nSent + 1 =>
                    (c.accepted /\ lastSent'.input = c.value)
              /\ ~c.accepted =>
                    (nSent' = nSent /\ pc' = "input" /\ state' = "waiting"
                       /\ task' = task /\ lesson' = lesson) ]_vars

\* C10: when the attempt fails, the completion callback ends the process
\* with a message naming the task; it renders nothing, dispatches no side
\* effect, leaves the task where it is and sends nothing again.
C10_FailedAttemptIsFatal ==
    [][ (CallbackStep /\ reply.kind = "error")
        => /\ pc' = "exited"
           /\ printed' = Append(printed, <<"Internal error in attempting", task>>)
           /\ trace' = <<>>
           /\ state' = "submit"
           /\ lesson' = lesson
           /\ task' = task
           /\ nSent' = nSent
           /\ lastSent' = lastSent
           /\ nApplied' = nApplied
           /\ nCompleted' = nCompleted
           /\ descShown' = descShown
           /\ inputsRead' = inputsRead
           /\ wait_time' = wait_time ]_vars

\* C10 witness: the process ended on a failed attempt.
C10_Witness ==
    /\ pc = "exited"
    /\ nSent = 2
    /\ printed = << <<"Internal error in attempting", task>> >>

\* C8 as claimed: once a lessons-changed notification is there, the next
\* thing a running engine does is abort on it; it makes no transition, takes
\* no input, sends nothing and applies nothing before.
C8_AbortsBeforeAnythingElse ==
    [][ (lcPending /\ pc \in {"start", "input", "inflight", "hung"})
        => \/ LessonsChangedStep /\ pc' = "exited"
           \/ UNCHANGED <<pc, state, lesson, task, session, nSent, lastSent,
                          trace, descShown, inputsRead, nApplied, nCompleted,
                          printed>> ]_vars

\* C8 as amended: handle_lessons_changed runs only while the process is in
\* the main loop (a lesson just completed and the loop asked to quit
\* included), never while it is blocked reading input; when it runs it
\* reports that lessons changed and ends the process at once, with no
\* transition, submission or effect of its own.
C8_AbortsWhenDispatched ==
    [][ LessonsChangedStep
        => /\ pc \in {"start", "inflight", "hung", "quit_requested"}
           /\ pc' = "exited"
           /\ printed' = printed \o <<LessonsChangedMsg, Bye>>
           /\ UNCHANGED <<state, lesson, task, nSent, lastSent, reply, trace,
                          descShown, inputsRead, nApplied, nCompleted,
                          wait_time>> ]_vars

\* C8 witness: a notification emitted while the engine waited for input was
\* acted on only after that input had been submitted.
C8_Witness ==
    /\ abortedFrom = "inflight"
    /\ lcRound = 0
    /\ nSent = 1
    /\ state = "submit"
    /\ pc = "exited"
    /\ printed = <<LessonsChangedMsg, Bye>>

\* C9 as claimed: when lessons-changed is emitted while attempt k is in
\* flight and the engine later aborts on it, the result of attempt k was
\* received first and no further attempt was sent.
C9_ChangeInFlightWaitsForResult ==
    (abortedFrom # "none" /\ lcRound > 0)
    => (nApplied >= lcRound /\ nSent = lcRound)

\* C9 as amended: when lessons-changed is emitted while attempt k is in
\* flight, the engine aborts on it the next time the main loop dispatches
\* it: either before the completion callback, and then the result of attempt
\* k is never received and nothing of its Effect is applied, or after the
\* callback applied the Effect, and then only once a later attempt has been
\* sent, a handler has failed and left the loop idle, or the lesson has
\* completed and the loop was asked to quit.  It never aborts between
\* reading an input and sending it.
C9_ChangeInFlightAbortsInLoop ==
    /\ abortedFrom # "input"
    /\ (abortedFrom # "none" /\ lcRound > 0)
       => \/ /\ abortedFrom = "inflight"
             /\ nApplied = lcRound - 1
             /\ nSent = lcRound
             /\ state = "submit"
             /\ trace = <<>>
          \/ /\ abortedFrom = "inflight"
             /\ nApplied >= lcRound
             /\ nSent > lcRound
             /\ state = "submit"
          \/ /\ abortedFrom = "hung"
             /\ nApplied >= lcRound
          \/ /\ abortedFrom = "quit_requested"
             /\ nApplied >= lcRound
             /\ nCompleted = 1
             /\ state = "running_side_effects"

\* C9 witness: the engine aborted with the first attempt in flight and its
\* result never received.
C9_Witness ==
    /\ abortedFrom = "inflight"
    /\ lcRound = 1
    /\ nApplied = 0
    /\ nSent = 1
    /\ pc = "exited"

\* The step is one of practice_task, not of the monitor's listener.
R_EngineStep == r_state' # r_state \/ r_sent' # r_sent

\* C6: when the monitor's flag is true at the checkpoint before a submission
\* is sent, the engine aborts saying that content changed and the pending
\* submission is never sent: every abort for changed content leaves the last
\* accepted input unsent.
C6_ReloadedOverridesSubmission ==
    /\ [][ (r_state = "SUBMIT" /\ ~r_inflight /\ r_flag /\ R_EngineStep)
           => /\ r_state' = "ABORTED"
              /\ r_msg' = "content changed"
              /\ r_sent' = r_sent
              /\ r_inflight' = FALSE ]_vars
    /\ [](r_msg = "content changed"
            => /\ r_state = "ABORTED"
               /\ Len(r_sent) = r_accepted - 1
               /\ r_pending # None
               /\ ~r_inflight)
    /\ [][ r_state = "ABORTED" => r_sent' = r_sent ]_vars

\* C6 witness: the second submission was overridden at the checkpoint.
C6_Witness ==
    /\ r_state = "ABORTED"
    /\ r_msg = "content changed"
    /\ r_accepted = 2
    /\ Len(r_sent) = 1
    /\ r_pending = sLs

\* What rendering the responses rs puts out, in their order.
RenderedOf(rs) == [i \in 1..Len(rs) |-> <<"response", rs[i]>>]

\* The values of the side effects the Effect e declares, in their order.
DeclaredOf(e) ==
    LET se == Get(e, "side_effects", <<>>)
    IN  [i \in 1..Len(se) |-> se[i].value]

\* The entry of a handler's record is part of a transition: the completion
\* event, the main loop quit, the next description or the next prompt.
IsTransition(x) ==
    \/ x \in {<<"loop_quit">>, <<"prompt">>}
    \/ Len(x) = 2 /\ x[1] = "description"
    \/ Len(x) = 3 /\ x[1] = "side_effect" /\ x[2] = LessonCompleted.value

\* C11: the completion callback of a graded submission puts out every
\* response in the given order, then the Effect's reply, then every declared
\* side effect in the given order, and only then what belongs to the
\* transition (completion event and loop quit, next prompt, or next
\* description and prompt).
C11_ResponsesReplySideEffectsTransition ==
    [][ (CallbackStep /\ Graded)
        => LET rs == RenderedOf(reply.responses)
               de == DeclaredOf(EffectOf(lesson, task, reply))
               n == Len(rs)
               m == Len(de)
           IN  /\ Len(trace') > n + 1 + m
               /\ SubSeq(trace', 1, n) = rs
               /\ trace'[n + 1] = <<"reply">>
               /\ \A i \in 1..m :
                     /\ Len(trace'[n + 1 + i]) = 3
                     /\ trace'[n + 1 + i][1] = "side_effect"
                     /\ trace'[n + 1 + i][2] = de[i]
               /\ \A i \in (n + m + 2)..Len(trace') : IsTransition(trace'[i])
               /\ \A i \in 1..(n + m + 1) : ~IsTransition(trace'[i]) ]_vars

\* C11 witness: two responses, the reply, two side effects, then the
\* completion.
C11_Witness ==
    /\ pc = "done"
    /\ lesson = sCd
    /\ task = "c2"
    /\ Len(trace) = 7
    /\ trace[1] = <<"response", "scroll_wait">>
    /\ trace[2] = <<"response", "wrapped">>
    /\ trace[3] = <<"reply">>
    /\ trace[4][2] = "e1"
    /\ trace[5][2] = "e2"
    /\ trace[7] = <<"loop_quit">>

\* The input modality of the task the engine is on.
ModalityOf(le, ta) == find_task_json(Lessons, le, ta).val.input.type

\* C12: when a step shows a task description, the engine is left in the
\* state _INPUT_STATE_TRANSITIONS gives for the task's input modality:
\* waiting for events, with no keyboard input read, for external events, and
\* waiting for any other.
C12_WaitsForEventsOnExternalEvents ==
    [][ (descShown' = descShown + 1 /\ find_task_json(Lessons, lesson', task').ok)
        => LET mo == ModalityOf(lesson', task')
           IN  /\ state' = INPUT_STATE_TRANSITIONS(mo)
               /\ mo = "external_events"
                    => (inputsRead' = inputsRead /\ pc' # "input") ]_vars

\* The number a string of decimal digits denotes, 0 for any other string.
RECURSIVE DigitsValue(_)
DigitsValue(s) ==
    LET digit == [c \in {"0", "1", "2", "3", "4", "5", "6", "7", "8", "9"} |->
                    CASE c = "0" -> 0 [] c = "1" -> 1 [] c = "2" -> 2
                      [] c = "3" -> 3 [] c = "4" -> 4 [] c = "5" -> 5
                      [] c = "6" -> 6 [] c = "7" -> 7 [] c = "8" -> 8
                      [] OTHER -> 9]
    IN  IF s = <<>> \/ \E i \in 1..Len(s) : s[i] \notin DOMAIN digit THEN 0
        ELSE IF Len(s) = 1 THEN digit[s[1]]
        ELSE 10 * DigitsValue(SubSeq(s, 1, Len(s) - 1)) + digit[s[Len(s)]]

\* The 1-based position raw chooses among n choices, 0 when it chooses none.
ChoiceIndex(raw, n) ==
    IF DigitsValue(Strip(raw)) \in 1..n THEN DigitsValue(Strip(raw)) ELSE 0

\* The input is one of the commands handle_user_input acts on itself.
IsCommand(raw, le) ==
    \/ raw \in {sQuit, sExit}
    \/ StartsWith(Strip(raw), sShowmehow) /\ le # sShowmehow

\* C13: on a task whose input is a choice among N keys, an input that is an
\* integer in 1..N is submitted as the key at that position, and any other
\* input is not submitted and leaves the engine waiting on the same task.
C13_ChoiceSubmitsTheKey ==
    [][ (InputStep /\ find_task_json(Lessons, lesson, task).ok
           /\ ModalityOf(lesson, task) = "choice"
           /\ ~IsCommand(lastInput', lesson))
        => LET keys == find_task_json(Lessons, lesson, task).val.input.settings
               k == ChoiceIndex(lastInput', Len(keys))
           IN  IF k > 0
               THEN nSent' = nSent + 1 /\ lastSent'.input = keys[k]
               ELSE /\ nSent' = nSent
                    /\ pc' = "input"
                    /\ state' = "waiting"
                    /\ task' = task ]_vars

\* C14: the monitor's flag is false until a content-changed notification is
\* received and is never cleared afterwards: once Reloaded() has returned
\* true (the engine then aborted for changed content) it is true for the rest
\* of the session, whatever the engine and the listener do in between.
C14_ReloadFlagSticky ==
    /\ [][ Reloaded(r_flag) => Reloaded(r_flag') ]_vars
    /\ [][ (~r_flag /\ r_flag')
           => (r_mon = "started" /\ UNCHANGED <<r_state, r_sent, r_task>>) ]_vars
    /\ [](r_mon = "new" => ~Reloaded(r_flag))
    /\ [](r_msg = "content changed" => Reloaded(r_flag))

\* C14 witness: the flag was set while a submission was in flight and is
\* still set after the lesson was completed and the monitor stopped.
C14_Witness ==
    /\ Reloaded(r_flag)
    /\ r_state = "DONE"
    /\ r_mon = "stopped"
    /\ Len(r_sent) = 2

\* C15: 'quit' or 'exit' at the prompt makes the engine print the farewell
\* and end the process without submitting the input, and so does a bare
\* 'showmehow' typed in a lesson other than showmehow.
C15_QuitNeverSubmits ==
    [][ (InputStep
           /\ \/ lastInput' \in {sQuit, sExit}
              \/ Strip(lastInput') = sShowmehow /\ lesson # sShowmehow)
        => /\ pc' = "exited"
           /\ nSent' = nSent
           /\ lastSent' = lastSent
           /\ printed' = Append(printed, Bye) ]_vars

\* The states and transitions the docstring of PracticeTaskStateMachine
\* lists: F -> W; W -> S, W; S -> F, E.
DocStates == {"fetching", "waiting", "submit", "exiting"}

DocTransitions ==
    { <<"fetching", "waiting">>, <<"waiting", "submit">>,
      <<"waiting", "waiting">>, <<"submit", "fetching">>,
      <<"submit", "exiting">> }

\* C16: the _state of a constructed engine only takes the values the class
\* documentation lists and only changes along the transitions it lists.
C16_OnlyDocumentedTransitions ==
    /\ [](state # Unset => state \in DocStates)
    /\ [][ (state # Unset /\ state' # state)
           => <<state, state'>> \in DocTransitions ]_vars

\* The responses of rs that come before the first one of an unknown kind.
RECURSIVE KnownPrefix(_)
KnownPrefix(rs) ==
    IF rs = <<>> \/ Head(rs) \notin ResponseTypes THEN <<>>
    ELSE <<Head(rs)>> \o KnownPrefix(Tail(rs))

\* C17: an answer carrying a response of an unknown rendering kind ends the
\* session with an error: the responses before it are all that is put out
\* (no reply, no side effect, no prompt), nothing is read or sent, and the
\* process is over.  An answer whose responses are all of known kinds does
\* not fail.
C17_UnknownResponseKindIsFatal ==
    /\ [][ (CallbackStep /\ reply.kind = "ok" /\ ~Graded)
           => /\ trace' = RenderedOf(KnownPrefix(reply.responses))
              /\ inputsRead' = inputsRead
              /\ descShown' = descShown
              /\ nSent' = nSent
              /\ nCompleted' = nCompleted
              /\ task' = task
              /\ pc' \in {"exited", "crashed"} ]_vars
    /\ [][ (CallbackStep /\ Graded) => pc' \in {"input", "quit_requested"} ]_vars

\* How many responses the paced renderer showed in the handler's record tr.
ScrollWaits(tr) ==
    Cardinality({i \in 1..Len(tr) : tr[i] = <<"response", "scroll_wait">>})

\* C18: the wait time of the paced renderer is never below 1 and never goes
\* up; a handler that renders k paced responses leaves it k lower, but not
\* below 1, so it is strictly lower after a call made while it was above 1,
\* and nothing else changes it.
C18_WaitTimeDecreasesToOne ==
    /\ [](wait_time >= 1)
    /\ [][ wait_time' <= wait_time ]_vars
    /\ [][ wait_time' # wait_time => CallbackStep ]_vars
    /\ [][ CallbackStep
           => LET k == ScrollWaits(trace')
              IN  /\ wait_time' = (IF wait_time - k > 1 THEN wait_time - k ELSE 1)
                  /\ (k > 0 /\ wait_time > 1) => wait_time' < wait_time ]_vars

\* C18 witness: the paced renderer was called again with the wait time at
\* its floor.
C18_Witness ==
    /\ wait_time = 1
    /\ nApplied = 2
    /\ ScrollWaits(trace) = 2

\* C20: when the completion callback applies an Effect that does not complete
\* the lesson and whose move_to names another task of the lesson, the task
\* becomes exactly that task, lesson and session stay as they are with no
\* session call made, and the new task's description is shown once, followed
\* by the prompt: the engine waits for input on the new task.
C20_AdvanceMovesToNamedTask ==
    [][ (CallbackStep /\ Graded
           /\ ~Get(EffectOf(lesson, task, reply), "completes_lesson", FALSE)
           /\ Get(EffectOf(lesson, task, reply), "move_to", task) # task
           /\ find_task_json(Lessons, lesson,
                             EffectOf(lesson, task, reply).move_to).ok)
        => /\ task' = EffectOf(lesson, task, reply).move_to
           /\ lesson' = lesson
           /\ session' = session
           /\ svcOpen' = svcOpen
           /\ closeCalls' = closeCalls
           /\ nextHandle' = nextHandle
           /\ state' = "waiting"
           /\ pc' = "input"
           /\ descShown' = descShown + 1
           /\ inputsRead' = inputsRead + 1
           /\ nSent' = nSent
           /\ Len(trace') >= 2
           /\ trace'[Len(trace') - 1] = <<"description", task'>>
           /\ trace'[Len(trace')] = <<"prompt">> ]_vars

\* C20 witness: the engine advanced from c1 to c2 and waits there.
C20_Witness ==
    /\ pc = "input"
    /\ lesson = sCd
    /\ task = "c2"
    /\ nApplied = 1
    /\ descShown = 2
    /\ session = 1
    /\ Len(trace) >= 2
    /\ trace[Len(trace) - 1] = <<"description", "c2">>

\* The engine has shown the description of a task that takes external
\* events and waits on it: the waiting-for-events state of the claim.
WaitingForEvents ==
    /\ pc = "input"
    /\ <<lesson, task>> \in ExternalEventTasks

C21_StateAssertionsHold ==
    /\ [](\A i \in 1..Len(trace) : trace[i] # AssertionError)
    /\ [](pc = "start" => state = "fetching")
    /\ [](pc = "inflight" => state = "submit")
    /\ [][ CallbackStep => state = "submit" ]_vars

\* C21 witness: both handlers ran, the second description being shown from
\* inside the completion callback, and then a further callback ran.
C21_Witness ==
    /\ descShown = 2
    /\ nApplied = 2
    /\ pc = "input"
    /\ trace # <<>>
    /\ \A i \in 1..Len(trace) : trace[i] # AssertionError

\* C22: at most one attempt is outstanding: a submission is sent only when
\* every earlier one has had its completion callback, and it carries the
\* session, lesson and task the engine holds at that moment.  No other step
\* than the input handler's sends one: not a lesson-events notification, not
\* a lessons-changed signal, not the completion callback.
C22_OneAttemptInFlight ==
    /\ [](nSent - nApplied \in {0, 1})
    /\ [](nSent = nApplied + 1 => pc \in {"inflight", "exited"})
    /\ [][ nSent' # nSent
           => /\ nSent' = nSent + 1
              /\ pc # "inflight"
              /\ reply = NoReply
              /\ nSent = nApplied
              /\ pc' = "inflight"
              /\ lastSent'.session = session
              /\ lastSent'.lesson = lesson
              /\ lastSent'.task = task
              /\ UNCHANGED <<session, lesson, task>>
              /\ InputStep ]_vars

\* C22 witness: a second attempt is outstanding, sent from the second task
\* of the lesson after the first had its completion callback, and a
\* lesson-events notification for that task has been emitted meanwhile.
C22_Witness ==
    /\ pc = "inflight"
    /\ nSent = 2
    /\ nApplied = 1
    /\ lesson = sCd
    /\ task = "c2"
    /\ lastSent = [session |-> session, lesson |-> lesson, task |-> task,
                   input |-> lastInput]
    /\ session = 1
    /\ lessonEvents = <<sCd, "c2">>

\* C23: the lesson and task a constructed engine points at always name a
\* task of the loaded lessons; a 'showmehow X' for a lesson that is not
\* unlocked leaves lesson, task and session as they were.
C23_PointerNamesATask ==
    /\ [](state # Unset => find_task_json(Lessons, lesson, task).ok)
    /\ [][ (InputStep /\ lesson # sShowmehow
              /\ StartsWith(lastInput', sShowmehow)
              /\ Strip(lastInput') # sShowmehow)
           => UNCHANGED <<lesson, task, session>> ]_vars

====
